---- MODULE Spec2Model ----
(***************************************************************************)
(* APsystems EZHI local API integration: the update coordinator           *)
(* (ApSystemsDataCoordinator._async_refresh / _async_update_data) and the  *)
(* set_power service of custom_components/apsystems_ezhi_local/__init__.py *)
(*                                                                         *)
(* The event loop is single threaded: the code between two awaits is one   *)
(* atomic step.  The awaits are api.get_device_info(), api.get_output_data *)
(* and api.set_power(); a refresh invocation is suspended there while      *)
(* other callbacks (a timer, another refresh, a listener registration,     *)
(* shutdown) run.                                                          *)
(***************************************************************************)
EXTENDS Integers, FiniteSets, Sequences, Bags, TLC

\* ---------------------------------------------------------------- bounds
MaxTasks == 2        \* refresh invocations that can be suspended at once
MaxReading == 2      \* distinct readings get_output_data can return
MaxListeners == 1    \* subscribers that can be registered
PowerMargin == 1     \* how far around MIN_VALUE and MAX_VALUE inputs go

\* -------------------------------------------------------------- constants
MIN_VALUE == 20
MAX_VALUE == 100
\* A variant of always_update: line 95 left out, so that listeners hear of a
\* refresh only when the flag or the Snapshot changed.
always_update_Off == FALSE
always_update == TRUE

None == 0
Readings == 1..MaxReading
\* The device metadata and the error objects are opaque to this code: it
\* stores them and tests device_info against None, nothing else.  One value
\* stands for each.
Infos == {1}
Errs == {1}
ListenerIds == 1..MaxListeners
Powers == {5, 50, 150}
          \cup ((MIN_VALUE - PowerMargin)..(MIN_VALUE + PowerMargin))
          \cup ((MAX_VALUE - PowerMargin)..(MAX_VALUE + PowerMargin))

\* What a device client call can do: return a value, or raise TimeoutError,
\* ClientConnectionError, or some other Exception (val names the error).
InfoResults == [kind : {"ok"}, val : Infos]
               \cup [kind : {"TimeoutError", "ClientConnectionError"}, val : {None}]
               \cup [kind : {"Exception"}, val : Errs]
DataResults == [kind : {"ok"}, val : Readings]
               \cup [kind : {"TimeoutError", "ClientConnectionError"}, val : {None}]
               \cup [kind : {"Exception"}, val : Errs]
SetPowerResults == [kind : {"ok"}, val : {None}]
                   \cup [kind : {"TimeoutError"}, val : {None}]
                   \cup [kind : {"Exception"}, val : Errs]

VARIABLES
    data,                 \* self.data: the Snapshot (None until a poll succeeds)
    last_update_success,  \* self.last_update_success
    last_exception,       \* self.last_exception
    device_info,          \* self.device_info
    shutdown_requested,   \* self._shutdown_requested
    is_stopping,          \* self.hass.is_stopping
    listeners,            \* self._listeners
    unsub_refresh,        \* self._unsub_refresh is set: a refresh timer is pending
    debounce_pending,     \* self._debounced_refresh has a call pending
    task,                 \* the bag of suspended _async_refresh invocations
    service,              \* the suspended set_power_service invocation
    lastFailed,           \* history: the poll that completed last failed
    lastGood,             \* history: reading returned by the last successful poll
    ev                    \* history: what the step just taken did

vars == <<data, last_update_success, last_exception, device_info,
          shutdown_requested, is_stopping, listeners, unsub_refresh,
          debounce_pending, task, service, lastFailed, lastGood, ev>>

coord == <<data, last_update_success, last_exception, device_info>>
host == <<shutdown_requested, is_stopping, listeners>>
hist == <<lastFailed, lastGood>>

IdleService == [pc |-> "idle", power |-> 0]

\* The record every step leaves in ev; a step overrides the fields it sets.
\*   kind         what the step was: "start"/"abort" (entry of _async_refresh),
\*                "info" (get_device_info came back, the poll goes on),
\*                "finish" (the refresh ended), "set_power", "set_power_done",
\*                or a host step
\*   scheduled    the scheduled argument of the _async_refresh entered
\*   call, arg    the device client call the step made, and set_power's argument
\*   input        call.data["power"]
\*   awaited, res the device client call whose result the step consumed, and
\*                how it ended ("ok" or the exception class)
\*   outcome      how _async_refresh classified the poll
\*   result       how the invocation ended for its caller ("return", "raise";
\*                "none" while it is suspended)
\*   err          the error object the device client call raised, if it was an
\*                Exception that is no timeout or connection error
\*   flagAtStart  last_update_success as it was when the refresh that ends in
\*                this step entered _async_refresh
\*   raises       the exception class that left the invocation ("none" if none)
\*   notifyCalls, notified   calls of async_update_listeners, listeners reached
\*   recovered    the "recovered" notice was logged;  warned: a warning was logged
\*   armed        _schedule_refresh was called
\*   wroteInfo    self.device_info was assigned
\*   timerAtEntry, debounceAtEntry, successBefore, dataBefore, failedBefore
\*                the state the step started from
NoEv == [kind |-> "init", scheduled |-> FALSE,
         call |-> "none", arg |-> 0, input |-> 0, warned |-> FALSE,
         awaited |-> "none", res |-> "none", outcome |-> "none", result |-> "none",
         raises |-> "none", err |-> None, flagAtStart |-> TRUE,
         notifyCalls |-> 0, notified |-> {}, recovered |-> FALSE,
         armed |-> FALSE, wroteInfo |-> FALSE,
         timerAtEntry |-> FALSE, debounceAtEntry |-> FALSE,
         successBefore |-> TRUE, dataBefore |-> None, failedBefore |-> FALSE]

Init ==
    /\ data = None
    /\ last_update_success = TRUE
    /\ last_exception = None
    /\ device_info = None
    /\ shutdown_requested = FALSE
    /\ is_stopping = FALSE
    /\ listeners = {}
    /\ unsub_refresh = FALSE
    /\ debounce_pending = FALSE
    /\ task = EmptyBag
    /\ service = IdleService
    /\ lastFailed = FALSE
    /\ lastGood = None
    /\ ev = NoEv

\* ------------------------------------------------- _async_update_data
\* A variant of DeviceInfoStep without the inner try: what get_device_info
\* raises leaves _async_update_data's body.
DeviceInfoStep_NoInnerTry(r) ==
    IF r.kind = "ok"
    THEN [store |-> TRUE, value |-> r.val, warned |-> FALSE, raised |-> "none"]
    ELSE [store |-> FALSE, value |-> None, warned |-> FALSE, raised |-> r.kind]

\* Lines 102-106: the inner try around get_device_info.  r is what the call
\* did.  A returned value is stored; any Exception is logged as a warning and
\* swallowed, so nothing is raised out of the inner try.
DeviceInfoStep(r) ==
    IF r.kind = "ok"
    THEN [store |-> TRUE, value |-> r.val, warned |-> FALSE, raised |-> "none"]
    ELSE [store |-> FALSE, value |-> None, warned |-> TRUE, raised |-> "none"]

\* Lines 100, 110-111: the outer try.  kind is the exception raised inside it
\* ("none" when the body returned).  TimeoutError and ClientConnectionError
\* become InverterNotAvailable, anything else leaves as it is.
UpdateDataRaises(kind) ==
    IF kind \in {"TimeoutError", "ClientConnectionError"}
    THEN "InverterNotAvailable"
    ELSE kind

\* ------------------------------------------------------ _async_refresh
\* A variant of ShouldAbort that does not look at the scheduled argument.
ShouldAbort_AnyStopping(scheduled) ==
    shutdown_requested \/ is_stopping

\* A variant of ShouldAbort that does not look at the shutdown flag.
ShouldAbort_StoppingOnly(scheduled) ==
    scheduled /\ is_stopping

\* A variant of ShouldAbort with the other precedence of or / and.
ShouldAbort_OrBindsTighter(scheduled) ==
    (shutdown_requested \/ scheduled) /\ is_stopping

\* Line 123: the precondition check.
ShouldAbort(scheduled) ==
    shutdown_requested \/ (scheduled /\ is_stopping)

\* A variant of RefreshTry whose else clause does not set the flag.
RefreshTry_NoRecovery(u) ==
    CASE u.raised = "none" ->
           [data |-> u.val, success |-> last_update_success,
            exception |-> last_exception,
            recovered |-> FALSE, outcome |-> "Success", result |-> "return"]
      [] u.raised = "InverterNotAvailable" ->
           [data |-> data, success |-> FALSE, exception |-> last_exception,
            recovered |-> FALSE, outcome |-> "DeviceUnavailable", result |-> "return"]
      [] OTHER ->
           [data |-> data, success |-> FALSE, exception |-> u.val,
            recovered |-> FALSE, outcome |-> "UnexpectedError", result |-> "return"]

\* A variant of RefreshTry that logs the recovery notice on every success.
RefreshTry_AlwaysLogsRecovery(u) ==
    CASE u.raised = "none" ->
           [data |-> u.val, success |-> TRUE, exception |-> last_exception,
            recovered |-> TRUE, outcome |-> "Success", result |-> "return"]
      [] u.raised = "InverterNotAvailable" ->
           [data |-> data, success |-> FALSE, exception |-> last_exception,
            recovered |-> FALSE, outcome |-> "DeviceUnavailable", result |-> "return"]
      [] OTHER ->
           [data |-> data, success |-> FALSE, exception |-> u.val,
            recovered |-> FALSE, outcome |-> "UnexpectedError", result |-> "return"]

\* A variant of RefreshTry that resets last_exception when the poll succeeds.
RefreshTry_ResetsException(u) ==
    CASE u.raised = "none" ->
           LET recover == ~last_update_success
           IN [data |-> u.val,
               success |-> IF recover THEN TRUE ELSE last_update_success,
               exception |-> None,
               recovered |-> recover, outcome |-> "Success", result |-> "return"]
      [] u.raised = "InverterNotAvailable" ->
           [data |-> data, success |-> FALSE, exception |-> last_exception,
            recovered |-> FALSE, outcome |-> "DeviceUnavailable", result |-> "return"]
      [] OTHER ->
           [data |-> data, success |-> FALSE, exception |-> u.val,
            recovered |-> FALSE, outcome |-> "UnexpectedError", result |-> "return"]

\* A variant of RefreshTry that clears the Snapshot when the poll fails.
RefreshTry_ClearsOnFailure(u) ==
    CASE u.raised = "none" ->
           LET recover == ~last_update_success
           IN [data |-> u.val,
               success |-> IF recover THEN TRUE ELSE last_update_success,
               exception |-> last_exception,
               recovered |-> recover, outcome |-> "Success", result |-> "return"]
      [] u.raised = "InverterNotAvailable" ->
           [data |-> None, success |-> FALSE, exception |-> last_exception,
            recovered |-> FALSE, outcome |-> "DeviceUnavailable", result |-> "return"]
      [] OTHER ->
           [data |-> None, success |-> FALSE, exception |-> u.val,
            recovered |-> FALSE, outcome |-> "UnexpectedError", result |-> "return"]

\* A variant of RefreshTry without the broad except clause: an error that is
\* not InverterNotAvailable leaves _async_refresh.
RefreshTry_NoBroadExcept(u) ==
    CASE u.raised = "none" ->
           LET recover == ~last_update_success
           IN [data |-> u.val,
               success |-> IF recover THEN TRUE ELSE last_update_success,
               exception |-> last_exception,
               recovered |-> recover, outcome |-> "Success", result |-> "return"]
      [] u.raised = "InverterNotAvailable" ->
           [data |-> data, success |-> FALSE, exception |-> last_exception,
            recovered |-> FALSE, outcome |-> "DeviceUnavailable", result |-> "return"]
      [] OTHER ->
           [data |-> data, success |-> last_update_success,
            exception |-> last_exception,
            recovered |-> FALSE, outcome |-> "UnexpectedError", result |-> "raise"]

\* Lines 133-146: try / except / else around _async_update_data, whose result
\* is u = [raised, val]: the exception it raised ("none" if it returned) and
\* the reading returned or the error raised.
RefreshTry(u) ==
    CASE u.raised = "none" ->
           LET recover == ~last_update_success
           IN [data |-> u.val,
               success |-> IF recover THEN TRUE ELSE last_update_success,
               exception |-> last_exception,
               recovered |-> recover, outcome |-> "Success", result |-> "return"]
      [] u.raised = "InverterNotAvailable" ->
           [data |-> data, success |-> FALSE, exception |-> last_exception,
            recovered |-> FALSE, outcome |-> "DeviceUnavailable", result |-> "return"]
      [] OTHER ->
           [data |-> data, success |-> FALSE, exception |-> u.val,
            recovered |-> FALSE, outcome |-> "UnexpectedError", result |-> "return"]

\* A variant of ShouldSchedule that reschedules only while the flag is up.
ShouldSchedule_OnlyWhileHealthy ==
    listeners # {} /\ ~is_stopping /\ last_update_success

\* A variant of ShouldSchedule that does not look at hass.is_stopping.
ShouldSchedule_IgnoresStopping ==
    listeners # {}

\* Line 155 (auth_failed is always False here).
ShouldSchedule ==
    listeners # {} /\ ~is_stopping

\* A variant of ShouldNotify whose early return looks at the previous flag only.
ShouldNotify_PreviousOnly(success, previous_update_success, previous_data, newdata) ==
    IF ~previous_update_success
    THEN FALSE
    ELSE \/ always_update
         \/ success # previous_update_success
         \/ previous_data # newdata

\* Lines 157-164: the propagation decision, reached only when the try
\* statement did not raise.
ShouldNotify(success, previous_update_success, previous_data, newdata) ==
    IF ~success /\ ~previous_update_success
    THEN FALSE
    ELSE \/ always_update
         \/ success # previous_update_success
         \/ previous_data # newdata

\* Lines 130-131: the locals a suspended invocation carries.  previous_data
\* is read at line 162 only, which always_update short-circuits: while it is
\* dead its value is not carried.  (The invocation also carries flagAtStart,
\* history for the claims: the flag as it was at entry.)
Locals(pc) ==
    [pc |-> pc,
     previous_update_success |-> last_update_success,
     previous_data |-> IF always_update THEN None ELSE data]

Running == BagToSet(task)

\* Lines 147-164 after lines 133-146: the end of a refresh whose
\* _async_update_data ended as u; e is the ev record of the step so far.
Complete(t, u, e) ==
    LET r == RefreshTry(u)
        arm == ShouldSchedule
        notify == /\ r.result = "return"
                  /\ ShouldNotify(r.success, t.previous_update_success,
                                  t.previous_data, r.data)
    IN /\ data' = r.data
       /\ last_update_success' = r.success
       /\ last_exception' = r.exception
       /\ unsub_refresh' = (arm \/ unsub_refresh)
       /\ task' = task (-) SetToBag({t})
       /\ lastFailed' = (e.res # "ok")
       /\ lastGood' = IF e.res = "ok" THEN u.val ELSE lastGood
       /\ ev' = [e EXCEPT !.kind = "finish",
                          !.outcome = r.outcome, !.result = r.result,
                          !.raises = IF r.result = "raise" THEN u.raised ELSE "none",
                          !.flagAtStart = t.flagAtStart,
                          !.recovered = r.recovered, !.armed = arm,
                          !.notifyCalls = IF notify THEN 1 ELSE 0,
                          !.notified = IF notify THEN listeners ELSE {},
                          !.successBefore = last_update_success,
                          !.dataBefore = data,
                          !.failedBefore = lastFailed]

\* A variant of UnsubRefresh that leaves the timer alone.
UnsubRefresh_Skipped(pending) == pending

\* Line 121: self._async_unsub_refresh() cancels the timer if one is pending;
\* none is pending afterwards.
UnsubRefresh(pending) == FALSE

\* Line 122: self._debounced_refresh.async_cancel(), likewise.
DebounceCancel(pending) == FALSE

\* Lines 120-132 and the first await of _async_update_data (line 104 or 108).
\* timer0 and debounce0 are the pending timer and debounced call at entry.
Refresh(scheduled, timer0, debounce0) ==
    LET e == [NoEv EXCEPT !.scheduled = scheduled, !.timerAtEntry = timer0,
                          !.debounceAtEntry = debounce0,
                          !.successBefore = last_update_success,
                          !.dataBefore = data, !.failedBefore = lastFailed]
    IN /\ unsub_refresh' = UnsubRefresh(timer0)
       /\ debounce_pending' = DebounceCancel(debounce0)
       /\ UNCHANGED <<coord, host, service, hist>>
       /\ IF ShouldAbort(scheduled)
          THEN /\ task' = task
               /\ ev' = [e EXCEPT !.kind = "abort", !.result = "return"]
          ELSE /\ BagCardinality(task) < MaxTasks
               /\ LET first == IF device_info = None THEN "get_device_info"
                                                    ELSE "get_output_data"
                  IN /\ task' = task (+) SetToBag({Locals(first) @@
                                  [flagAtStart |-> last_update_success]})
                     /\ ev' = [e EXCEPT !.kind = "start", !.call = first]

\* the timer set by _schedule_refresh fires: the handler clears the handle and
\* awaits _async_refresh(scheduled=True)
TimerRefresh ==
    /\ unsub_refresh
    /\ Refresh(TRUE, FALSE, debounce_pending)

\* async_refresh(): a refresh asked for directly
ManualRefresh ==
    /\ TRUE
    /\ Refresh(FALSE, unsub_refresh, debounce_pending)

\* async_request_refresh(): a refresh asked for through the debouncer
RequestRefresh ==
    /\ ~shutdown_requested
    /\ ~debounce_pending
    /\ debounce_pending' = TRUE
    /\ ev' = [NoEv EXCEPT !.kind = "request"]
    /\ UNCHANGED <<coord, host, unsub_refresh, task, service, hist>>

\* the debouncer's timer fires and it calls async_refresh()
DebouncedRefresh ==
    /\ debounce_pending
    /\ Refresh(FALSE, unsub_refresh, FALSE)

\* Lines 103-108: get_device_info returned or raised (r); then line 108 awaits
\* get_output_data, unless the inner try let an exception out.
DeviceInfoReturns(t, r) ==
    /\ t.pc = "get_device_info"
    /\ LET s == DeviceInfoStep(r)
           e == [NoEv EXCEPT !.awaited = "get_device_info", !.res = r.kind,
                             !.err = IF r.kind = "Exception" THEN r.val ELSE None,
                             !.warned = s.warned,
                             !.wroteInfo = s.store]
       IN /\ device_info' = IF s.store THEN s.value ELSE device_info
          /\ IF s.raised = "none"
             THEN /\ task' = (task (-) SetToBag({t}))
                             (+) SetToBag({[t EXCEPT !.pc = "get_output_data"]})
                  /\ ev' = [e EXCEPT !.kind = "info", !.call = "get_output_data"]
                  /\ UNCHANGED <<data, last_update_success, last_exception,
                                 unsub_refresh, hist>>
             ELSE Complete(t, [raised |-> UpdateDataRaises(s.raised), val |-> r.val], e)
    /\ UNCHANGED <<host, debounce_pending, service>>

\* Lines 108-111 and 133-164: get_output_data returned or raised (r).
OutputDataReturns(t, r) ==
    /\ t.pc = "get_output_data"
    /\ Complete(t, [raised |-> UpdateDataRaises(IF r.kind = "ok" THEN "none" ELSE r.kind),
                    val |-> r.val],
                [NoEv EXCEPT !.awaited = "get_output_data", !.res = r.kind,
                             !.err = IF r.kind = "Exception" THEN r.val ELSE None])
    /\ UNCHANGED <<device_info, host, debounce_pending, service>>

\* ----------------------------------------------------- set_power service
\* A variant of ClampPower without the elif branch.
ClampPower_NoUpperClamp(power) ==
    IF power < MIN_VALUE
    THEN [power |-> MIN_VALUE, warned |-> TRUE]
    ELSE [power |-> power, warned |-> FALSE]

\* Lines 42-47: the clamp of the requested power.
ClampPower(power) ==
    IF power < MIN_VALUE
    THEN [power |-> MIN_VALUE, warned |-> TRUE]
    ELSE IF power > MAX_VALUE
         THEN [power |-> MAX_VALUE, warned |-> TRUE]
         ELSE [power |-> power, warned |-> FALSE]

\* Lines 39-48 up to the await: set_power_service(call) with call.data["power"] = p
SetPowerService(p) ==
    /\ service.pc = "idle"
    /\ LET c == ClampPower(p)
       IN /\ service' = [pc |-> "set_power", power |-> c.power]
          /\ ev' = [NoEv EXCEPT !.kind = "set_power", !.input = p,
                                !.call = "set_power", !.arg = c.power,
                                !.warned = c.warned]
    /\ UNCHANGED <<coord, host, unsub_refresh, debounce_pending, task, hist>>

\* A variant of SetPowerAwait that wraps the call in try / except and logs.
SetPowerAwait_Swallows(r) ==
    [result |-> "return", raises |-> "none"]

\* Line 48: the await is the last statement and stands in no try: what
\* api.set_power raises (r.kind) leaves the service as it is.
SetPowerAwait(r) ==
    IF r.kind = "ok"
    THEN [result |-> "return", raises |-> "none"]
    ELSE [result |-> "raise", raises |-> r.kind]

\* Line 48: api.set_power returned or raised (r)
SetPowerReturns(r) ==
    /\ service.pc = "set_power"
    /\ service' = IdleService
    /\ LET a == SetPowerAwait(r)
       IN ev' = [NoEv EXCEPT !.kind = "set_power_done", !.arg = service.power,
                             !.awaited = "set_power", !.res = r.kind,
                             !.result = a.result, !.raises = a.raises]
    /\ UNCHANGED <<coord, host, unsub_refresh, debounce_pending, task, hist>>

\* ------------------------------------------------------------- the host
\* An entity subscribes (async_add_listener): the first listener arms the timer.
AddListener(l) ==
    /\ l \notin listeners
    /\ listeners' = listeners \cup {l}
    /\ unsub_refresh' = (unsub_refresh \/ listeners = {})
    /\ ev' = [NoEv EXCEPT !.kind = "add_listener"]
    /\ UNCHANGED <<coord, shutdown_requested, is_stopping, debounce_pending,
                   task, service, hist>>

\* An entity unsubscribes: the last listener to go cancels the timer.
RemoveListener(l) ==
    /\ l \in listeners
    /\ listeners' = listeners \ {l}
    /\ unsub_refresh' = (unsub_refresh /\ listeners' # {})
    /\ ev' = [NoEv EXCEPT !.kind = "remove_listener"]
    /\ UNCHANGED <<coord, shutdown_requested, is_stopping, debounce_pending,
                   task, service, hist>>

\* The host begins to stop: hass.is_stopping becomes true.
HostStops ==
    /\ ~is_stopping
    /\ is_stopping' = TRUE
    /\ ev' = [NoEv EXCEPT !.kind = "host_stops"]
    /\ UNCHANGED <<coord, shutdown_requested, listeners, unsub_refresh,
                   debounce_pending, task, service, hist>>

\* async_shutdown(): sets the flag and cancels the timer and the debouncer;
\* a refresh suspended in a device call is left alone.
Shutdown ==
    /\ ~shutdown_requested
    /\ shutdown_requested' = TRUE
    /\ unsub_refresh' = FALSE
    /\ debounce_pending' = FALSE
    /\ ev' = [NoEv EXCEPT !.kind = "shutdown"]
    /\ UNCHANGED <<coord, is_stopping, listeners, task, service, hist>>

\* The coordinator with its host.
Next ==
    \/ TimerRefresh
    \/ ManualRefresh
    \/ RequestRefresh
    \/ DebouncedRefresh
    \/ \E t \in Running, r \in InfoResults : DeviceInfoReturns(t, r)
    \/ \E t \in Running, r \in DataResults : OutputDataReturns(t, r)
    \/ \E l \in ListenerIds : AddListener(l)
    \/ \E l \in ListenerIds : RemoveListener(l)
    \/ HostStops
    \/ Shutdown

Spec == Init /\ [][Next]_vars

\* The coordinator in a host that neither stops nor shuts it down, where every
\* armed timer fires and every device call returns or raises (the device
\* client has a timeout).
NextLive ==
    \/ TimerRefresh
    \/ ManualRefresh
    \/ RequestRefresh
    \/ DebouncedRefresh
    \/ \E t \in Running, r \in InfoResults : DeviceInfoReturns(t, r)
    \/ \E t \in Running, r \in DataResults : OutputDataReturns(t, r)
    \/ \E l \in ListenerIds : AddListener(l)
    \/ \E l \in ListenerIds : RemoveListener(l)

SpecLive ==
    /\ Init
    /\ [][NextLive]_vars
    /\ WF_vars(TimerRefresh)
    /\ WF_vars(\E t \in Running, r \in InfoResults : DeviceInfoReturns(t, r))
    /\ WF_vars(\E t \in Running, r \in DataResults : OutputDataReturns(t, r))

\* async_refresh() while no other refresh is in progress
LoneRefresh ==
    /\ task = EmptyBag
    /\ Refresh(FALSE, unsub_refresh, debounce_pending)

\* The set_power service next to a coordinator that is refreshed one refresh
\* at a time, with the host.  The service closure holds the device client
\* only: it shares no state with the coordinator.
NextService ==
    \/ \E p \in Powers : SetPowerService(p)
    \/ \E r \in SetPowerResults : SetPowerReturns(r)
    \/ LoneRefresh
    \/ \E t \in Running, r \in InfoResults : DeviceInfoReturns(t, r)
    \/ \E t \in Running, r \in DataResults : OutputDataReturns(t, r)
    \/ \E l \in ListenerIds : AddListener(l)
    \/ \E l \in ListenerIds : RemoveListener(l)
    \/ HostStops
    \/ Shutdown

SpecService == Init /\ [][NextService]_vars
\* ================================================================ claims
Failed(e) == e.kind = "finish" /\ e.res # "ok"
Succeeded(e) == e.kind = "finish" /\ e.res = "ok"

\* C1: the Snapshot always equals the reading returned by the most recent
\* successful poll (None before the first one), and a refresh whose poll
\* failed leaves the Snapshot as it found it.
C1_SnapshotIsLastGoodReading ==
    /\ data = lastGood
    /\ Failed(ev) => data = ev.dataBefore

\* C1 witness: a poll fails after a Snapshot was stored, and the Snapshot stays.
C1_Witness ==
    Failed(ev) /\ ev.dataBefore # None /\ data = ev.dataBefore

\* C2: when the poll that completed last failed and this poll fails too, the
\* subscribers are not notified.
C2_NoNotifyOnSecondFailure ==
    (Failed(ev) /\ ev.failedBefore) => ev.notifyCalls = 0

\* C3: a poll that succeeds after a failed one sets last_update_success, logs
\* the recovery notice and notifies every subscriber, whether or not the
\* Snapshot changed.
C3_RecoveryNotifies ==
    (Succeeded(ev) /\ ev.failedBefore) =>
        /\ last_update_success
        /\ ev.result = "return"
        /\ ev.recovered
        /\ ev.notifyCalls = 1
        /\ ev.notified = listeners

\* C3 witness: a recovery whose reading equals the Snapshot already held,
\* with a subscriber registered.
C3_Witness ==
    /\ Succeeded(ev) /\ ev.failedBefore
    /\ ev.dataBefore # None /\ data = ev.dataBefore
    /\ listeners # {}

\* C4: get_device_info is called by every refresh that starts while
\* device_info is unset; once device_info is set it is not called again and
\* device_info is not assigned again.
C4_DeviceInfoFetchedOnce ==
    [][ /\ (device_info = None /\ ev'.kind = "start")
            => ev'.call = "get_device_info"
        /\ (device_info # None)
            => /\ device_info' = device_info
               /\ ~ev'.wroteInfo
               /\ ev'.call # "get_device_info" ]_vars

\* C5 as stated: a refresh entered after shutdown was requested aborts, calls
\* nothing, notifies nobody and changes no state, the pending timer and the
\* pending debounced refresh included.
C5_AbortChangesNothing ==
    [][ (shutdown_requested /\ ev'.kind \in {"start", "abort"}) =>
          /\ ev'.kind = "abort"
          /\ ev'.call = "none" /\ ev'.notifyCalls = 0 /\ ~ev'.armed
          /\ UNCHANGED <<coord, host, task>>
          /\ unsub_refresh' = ev'.timerAtEntry
          /\ debounce_pending' = ev'.debounceAtEntry ]_vars

\* C5 amended: a refresh entered after shutdown was requested aborts, calls
\* nothing, notifies nobody, arms no timer and leaves Snapshot, DeviceInfo,
\* last_update_success and last_exception unchanged; the one thing it does is
\* cancel the pending timer and the pending debounced refresh.
C5_AbortOnlyCancels ==
    [][ (shutdown_requested /\ ev'.kind \in {"start", "abort"}) =>
          /\ ev'.kind = "abort"
          /\ ev'.call = "none" /\ ev'.notifyCalls = 0 /\ ~ev'.armed
          /\ UNCHANGED <<coord, host, task>>
          /\ ~unsub_refresh'
          /\ ~debounce_pending' ]_vars

\* C5 witness: a refresh aborted after shutdown that found a timer pending.
C5_Witness ==
    ev.kind = "abort" /\ shutdown_requested /\ ev.timerAtEntry /\ ~unsub_refresh

Min(a, b) == IF a < b THEN a ELSE b
Max(a, b) == IF a > b THEN a ELSE b

\* C6: set_power makes one set_power call on the device client, with
\* min(max(p, MIN_VALUE), MAX_VALUE), and logs a warning exactly when p is
\* outside [MIN_VALUE, MAX_VALUE].
C6_SetPowerClamps ==
    /\ ev.kind = "set_power" =>
          /\ ev.call = "set_power"
          /\ ev.arg = Min(Max(ev.input, MIN_VALUE), MAX_VALUE)
          /\ ev.warned <=> (ev.input < MIN_VALUE \/ ev.input > MAX_VALUE)
          /\ service.pc = "set_power" /\ service.power = ev.arg
    /\ ev.kind = "set_power_done" => (ev.call = "none" /\ service.pc = "idle")

\* C6 witness: set_power(150) reaches the device client as 100, with a warning.
C6_Witness ==
    ev.kind = "set_power" /\ ev.input = 150 /\ ev.arg = 100 /\ ev.warned

\* C7: whatever the device calls of a refresh do, the refresh returns to its
\* caller; a failed poll shows as last_update_success = FALSE.
C7_FailuresAbsorbed ==
    /\ ev.kind \in {"finish", "abort"} => ev.result = "return"
    /\ ev.kind \in {"start", "info"} => ev.result = "none"
    /\ Failed(ev) => ~last_update_success

\* C7 witness: get_output_data raised an error that is no timeout or
\* connection error, and the refresh returned.
C7_Witness ==
    Failed(ev) /\ ev.res = "Exception" /\ ev.result = "return"

\* C8: at most one refresh is in progress at any time.
C8_NoOverlappingRefresh ==
    BagCardinality(task) <= 1

PollOutcome(res) ==
    CASE res = "ok" -> "Success"
      [] res \in {"TimeoutError", "ClientConnectionError"} -> "DeviceUnavailable"
      [] OTHER -> "UnexpectedError"

\* C9: when get_device_info returns or raises, the same poll goes on to call
\* get_output_data; a refresh ends only on the result of get_output_data, and
\* that result alone decides the outcome.
C9_DeviceInfoFailureKeepsPolling ==
    /\ ev.awaited = "get_device_info" =>
          (ev.kind = "info" /\ ev.call = "get_output_data" /\ ev.outcome = "none")
    /\ ev.kind = "finish" =>
          (ev.awaited = "get_output_data" /\ ev.outcome = PollOutcome(ev.res))

\* C9 witness: get_device_info timed out and get_output_data was called.
C9_Witness ==
    /\ ev.awaited = "get_device_info" /\ ev.res = "TimeoutError"
    /\ ev.call = "get_output_data" /\ device_info = None

\* C10 as stated: after a refresh that was not aborted, a timer is pending
\* exactly when there are subscribers and the host is not stopping.
C10_TimerPendingIffSubscribed ==
    ev.kind = "finish" => (unsub_refresh <=> (listeners # {} /\ ~is_stopping))

\* C10 amended: a refresh that was not aborted arms the timer at its end
\* exactly when there are subscribers and the host is not stopping, whatever
\* the outcome, so a timer is pending whenever that holds.
C10_ArmsTimerIffSubscribed ==
    ev.kind = "finish" =>
        /\ ev.armed <=> (listeners # {} /\ ~is_stopping)
        /\ ev.armed => unsub_refresh

\* C10 witness: a failed poll that armed the next timer.
C10_Witness ==
    Failed(ev) /\ ev.armed /\ unsub_refresh /\ listeners # {}
\* C11: the set_power service calls api.set_power once; what that call raises
\* leaves the service unchanged, no second call is made, and neither the call
\* nor its return touches Snapshot, DeviceInfo or last_update_success.
C11_SetPowerOneAttempt ==
    [][ /\ ev'.kind = "set_power" =>
              (ev'.call = "set_power" /\ ev'.result = "none" /\ UNCHANGED coord)
        /\ ev'.kind = "set_power_done" =>
              /\ ev'.call = "none"
              /\ service'.pc = "idle"
              /\ ev'.raises = (IF ev'.res = "ok" THEN "none" ELSE ev'.res)
              /\ ev'.result = (IF ev'.res = "ok" THEN "return" ELSE "raise")
              /\ UNCHANGED coord ]_vars

\* C11 witness: api.set_power raised, the error left the service, and the
\* coordinator still holds the Snapshot and DeviceInfo it had.
C11_Witness ==
    /\ ev.kind = "set_power_done" /\ ev.res = "Exception" /\ ev.raises = "Exception"
    /\ data # None /\ device_info # None /\ ~last_update_success
\* C12: with no shutdown and no stopping host, when the subscriber set stays
\* non-empty from some point on, refreshes complete again and again, whatever
\* the polls return or raise.
C12_PollingNeverStops ==
    (<>[](listeners # {})) => []<>(ev.kind = "finish")

\* C12 witness: a poll fails right after a failed poll, and the timer is armed
\* again.
C12_Witness ==
    Failed(ev) /\ ev.failedBefore /\ ev.res = "Exception" /\ ev.armed /\ unsub_refresh
\* C13: a refresh that was not aborted calls async_update_listeners once,
\* reaching every subscriber, unless its poll failed and last_update_success
\* was already FALSE when it started; then it calls it not at all.
C13_NotifiesUnlessRepeatedFailure ==
    ev.kind = "finish" =>
        /\ ev.notifyCalls = (IF Failed(ev) /\ ~ev.flagAtStart THEN 0 ELSE 1)
        /\ ev.notified = (IF ev.notifyCalls = 1 THEN listeners ELSE {})

\* C13 witness: a successful poll after a successful poll, with the same
\* reading as before, notifies the subscriber.
C13_Witness ==
    /\ Succeeded(ev) /\ ev.flagAtStart /\ ~ev.failedBefore
    /\ ev.dataBefore # None /\ data = ev.dataBefore
    /\ ev.notifyCalls = 1 /\ ev.notified # {}

\* C14: a refresh that was not aborted leaves last_update_success TRUE exactly
\* when its poll returned a reading, and no other step changes the flag.
C14_FlagTracksLastPoll ==
    [][ last_update_success' =
          (IF ev'.kind = "finish" THEN ev'.res = "ok" ELSE last_update_success) ]_vars

\* C14 witness: a successful poll raises the flag that was down.
C14_Witness ==
    Succeeded(ev) /\ ~ev.successBefore /\ last_update_success

\* C15: entering _async_refresh aborts exactly when shutdown was requested or
\* the call is scheduled and the host is stopping; otherwise it calls the
\* device.  A refresh that ends while the host is stopping still sets the flag
\* and the Snapshot by its poll, and arms no timer.
C15_AbortExactlyOnShutdownOrScheduledStop ==
    /\ ev.kind \in {"start", "abort"} =>
          /\ (ev.kind = "abort") <=>
                 (shutdown_requested \/ (ev.scheduled /\ is_stopping))
          /\ (ev.kind = "start") =>
                 ev.call = (IF device_info = None THEN "get_device_info"
                                                  ELSE "get_output_data")
    /\ (ev.kind = "finish" /\ is_stopping) =>
          /\ ~ev.armed
          /\ last_update_success = (ev.res = "ok")
          /\ data = (IF ev.res = "ok" THEN lastGood ELSE ev.dataBefore)

\* C15 witness: a manual refresh entered while the host is stopping, without
\* shutdown, calls the device.
C15_Witness ==
    /\ ev.kind = "start" /\ ~ev.scheduled /\ is_stopping /\ ~shutdown_requested
    /\ ev.call = "get_output_data"

\* C16: the recovery notice is logged by a refresh exactly when its poll
\* succeeded and last_update_success was FALSE; a success after a success, and
\* a first poll that succeeds, log nothing.
C16_RecoveryLoggedOnlyOnTransition ==
    /\ ev.kind = "finish" => (ev.recovered <=> (ev.res = "ok" /\ ~ev.successBefore))
    /\ (Succeeded(ev) /\ ~ev.failedBefore) => ~ev.recovered
    /\ ev.kind # "finish" => ~ev.recovered

\* C16 witness: a successful poll after a successful poll logs no notice.
C16_Witness ==
    Succeeded(ev) /\ ev.successBefore /\ ev.dataBefore # None /\ ~ev.recovered

\* C17: when _async_refresh has been entered, aborted or not, no timer and no
\* debounced refresh is pending: what was pending at entry is cancelled.
C17_EntryCancelsPending ==
    ev.kind \in {"start", "abort"} => (~unsub_refresh /\ ~debounce_pending)

\* C17 witness: a refresh that found a timer and a debounced refresh pending
\* and went on to call the device.
C17_Witness ==
    /\ ev.kind = "start" /\ ev.timerAtEntry /\ ev.debounceAtEntry
    /\ ~unsub_refresh /\ ~debounce_pending

\* C18 as stated: once shutdown is requested no step calls the device, arms
\* the timer, or writes Snapshot or last_update_success.
C18_NoWorkAfterShutdown ==
    [][ shutdown_requested =>
          /\ ev'.call = "none"
          /\ ~ev'.armed
          /\ data' = data
          /\ last_update_success' = last_update_success ]_vars

\* C18 amended: once shutdown is requested no refresh starts: only the
\* refreshes already suspended in a device call go on (and those do call
\* get_output_data, write and arm as usual).
C18_NoNewRefreshAfterShutdown ==
    [][ shutdown_requested =>
          /\ ev'.kind # "start"
          /\ BagCardinality(task') <= BagCardinality(task)
          /\ ev'.kind \notin {"info", "finish"} =>
                /\ ev'.call = "none"
                /\ ~ev'.armed
                /\ data' = data
                /\ last_update_success' = last_update_success ]_vars

\* C18 witness: a refresh in flight when shutdown was requested ends
\* afterwards, replaces the Snapshot and arms the timer.
C18_Witness ==
    /\ Succeeded(ev) /\ shutdown_requested
    /\ data # ev.dataBefore /\ ev.armed /\ unsub_refresh

\* C19: last_exception is assigned only by a refresh whose poll raised an
\* error that is no timeout or connection error, and then it is that error;
\* every other step, a successful poll included, leaves it as it is.
C19_LastExceptionOnlyOnUnexpectedError ==
    [][ last_exception' =
          (IF ev'.kind = "finish" /\ ev'.res = "Exception"
           THEN ev'.err ELSE last_exception) ]_vars

\* C19 witness: a poll succeeds after an unexpected error: the flag is up and
\* last_exception still holds the error.
C19_Witness ==
    Succeeded(ev) /\ last_update_success /\ last_exception \in Errs
====
